---- MODULE Spec2Model ----
(***************************************************************************)
(* Model of the workflow orchestration core of architect_ai:              *)
(*   python_agents/workflow_engine.py  PythonWorkflowEngine                *)
(*   python_agents/agents.py           LangChainJiraAnalystAgent.execute   *)
(*   python_agents/main.py             ConnectionManager, start_workflow,  *)
(*                                     websocket_endpoint                  *)
(* The program runs on one asyncio event loop: the code between two        *)
(* awaits is one atomic step, every await that can suspend is a point     *)
(* where the other tasks may run.                                          *)
(***************************************************************************)
EXTENDS Integers, Sequences, FiniteSets, TLC

\* ---------------------------------------------------------------- bounds
MaxWorkflows == 2
MaxSockets == 2
\* workflows started through main.start_workflow in the specification of the server
MaxRequests == 1
\* calls of cleanup_workflow
MaxCleanups == 2

WorkflowIds == 1..MaxWorkflows
Sockets == 1..MaxSockets

\* Ticket ids a caller may pass: WorkflowRequest.jira_ticket_id is any str.
TicketIds == {"", "ABC-1"}

\* What a caller may pass as progress_callback: nothing, the handler of
\* main.start_workflow (which broadcasts), or any other callable.
HandlerKinds == {"none", "broadcast", "custom"}

None == "None"

VARIABLES
    active_workflows,   \* keys of PythonWorkflowEngine.active_workflows
    progress_callbacks, \* PythonWorkflowEngine.progress_callbacks: id -> handler
    wfState,            \* the WorkflowState dict object of every workflow created
    task,               \* the task running _execute_workflow(id): its locals
    published,          \* per workflow: the AgentProgress events handed to its handler
    request,            \* per workflow: where the call that started it stands
    cleaned,            \* ids cleanup_workflow was called with
    cleanup_calls,      \* how many times cleanup_workflow was called
    held,               \* the value a reader last got from the engine, as a
                        \* mapping from ids to what it holds for them
    announce,           \* per workflow, of its started message and its progress
                        \* events: who was delivered what first (for the properties)
    call,               \* a call of the execute of the architecture or of the
                        \* requirements stage by a caller of its own: its locals
    active_connections, \* ConnectionManager.active_connections (a list)
    socket,             \* per websocket: "new", "open" (endpoint running), "closed"
    bc                  \* per broadcast() call in flight: its locals

vars == <<active_workflows, progress_callbacks, wfState, task, published, request,
          cleaned, cleanup_calls, held, call, announce, active_connections, socket, bc>>

engineVars == <<active_workflows, progress_callbacks, wfState, task, published,
                request, cleaned, cleanup_calls, held, call, announce>>

\* everything but the direct call of a stage
programVars == <<active_workflows, progress_callbacks, wfState, task, published,
                 request, cleaned, cleanup_calls, held, announce, active_connections,
                 socket, bc>>

\* ------------------------------------------------------------- dictionaries
\* dict.update / item assignment: keys of r override keys of s.
DictUpdate(s, r) ==
    [k \in (DOMAIN s) \cup (DOMAIN r) |-> IF k \in DOMAIN r THEN r[k] ELSE s[k]]

\* dict.get(key) with the default None
DictGet(s, k) == IF k \in DOMAIN s THEN s[k] ELSE None

\* Python truthiness of the strings of the model
Truthy(v) == v # None /\ v # ""

\* ------------------------------------------------------------------ events
\* AgentProgress(workflow_id, agent, message, progress, completed=False)
AgentProgress(w, agent, message, progress, completed) ==
    [workflow_id |-> w, agent |-> agent, message |-> message,
     progress |-> progress, completed |-> completed]

\* the message of main.start_workflow's broadcast
StartedMessage(w) ==
    [workflow_id |-> w, agent |-> "python_workflow_started", message |-> <<>>,
     progress |-> 0, completed |-> FALSE]

\* ------------------------------------------------------------------ stage
\* Messages of the faults a stage can end with.
FetchError == "Unable to fetch Jira ticket"
StageError == "Agent failed: precondition"
HandlerFault == "progress handler fault"

\* (an analyst that hands the workflow on to the next stage)
AnalystResult_NextStage(ticket, excel, hsd) ==
    [jira_ticket_data |-> "ticket-data", current_step |-> "tech_architect",
     ticket_key |-> ticket, summary |-> "summary", excel_export |-> excel,
     hsd_ticket_key |-> hsd, status |-> "completed"]

\* The result LangChainJiraAnalystAgent.execute returns.
AnalystResult(ticket, excel, hsd) ==
    [jira_ticket_data |-> "ticket-data", current_step |-> "completed",
     ticket_key |-> ticket, summary |-> "summary", excel_export |-> excel,
     hsd_ticket_key |-> hsd, status |-> "completed"]

\* The error marker a stage returns (the form of the other stages' except branch).
ErrorResult(msg) == [error |-> msg]

\* The keys a successful stage result adds.
OutputKeys == DOMAIN AnalystResult("t", None, None)

\* ------------------------------------------------------------------ owners
\* A broadcast() call belongs to the task of a workflow (its progress handler)
\* or to the request that started the workflow (the started message).
Owners == {"task", "req"} \X WorkflowIds
TaskOwner(w) == <<"task", w>>
ReqOwner(w) == <<"req", w>>

\* The locals of a broadcast() call: the position idx of its list iterator, the
\* connection cur it is sending to, its list disconnected. Beside them, for the
\* properties: sent, the connections it has delivered to, in order; stayed, the
\* connections registered ever since it began; churn, whether a client has
\* connected or gone away since it began.
IdleBroadcast ==
    [phase |-> "idle", idx |-> 0, cur |-> 0, disconnected |-> <<>>,
     stayed |-> {}, sent |-> <<>>, churn |-> FALSE]

\* Nothing delivered yet of the started message and the events of a workflow.
NoAnnounce == [got |-> {}, early |-> {}, throughout |-> {}]

\* ------------------------------------------------------------ engine state
\* The state dict start_workflow builds (workflow_engine.py:30-39).
InitialState(ticket) ==
    [jira_ticket_id |-> ticket, current_step |-> "jira_analyst",
     currentAgent |-> "jira-analyst", metadata |-> "metadata"]

\* A task not yet created, and the locals of a task.
\*   pc        the block the task runs next
\*   cb        progress_callback as _execute_workflow read it (line 58)
\*   ret       the block that follows the handler call in progress
\*   inExcept  the handler call in progress is the one of the except block
\*   invoked   the stages the task has called, in order
\*   stage     how the stage call ended: "result" (a mapping returned), "error"
\*             (an error marker returned), "raised" (a fault of its own)
\* The analyst's locals excel_file and hsd_ticket_key are seen by nobody before
\* the analyst returns them: their values are drawn where they are returned.
NoTask ==
    [pc |-> "none", cb |-> "absent", ret |-> "none", inExcept |-> FALSE,
     invoked |-> <<>>, stage |-> "none"]

started == 1..Len(wfState)

\* active_workflows.get(w): the state object, or None (<<state>> or <<>>)
get_workflow_status(w) == IF w \in active_workflows THEN <<wfState[w]>> ELSE <<>>

\* main.get_workflow_status: 404 when the engine's answer is falsy (None, or a
\* dict without keys)
StatusFound(w) ==
    LET state == get_workflow_status(w) IN
    state # <<>> /\ DOMAIN state[1] # {}

\* get_all_workflows: a copy of the mapping
get_all_workflows == [w \in active_workflows |-> wfState[w]]

\* main.get_all_workflows (GET /workflows): the count and the mapping
list_workflows ==
    [count |-> Cardinality(DOMAIN get_all_workflows), workflows |-> get_all_workflows]

\* What a caller holds for the state of w once a read has returned: the dict
\* object itself. get_workflow_status returns the object of the store
\* (workflow_engine.py:124), dict.copy() copies the mapping and not the dicts in
\* it (line 128), and the routes of main.py pass them on (main.py:134, 145).
Reference(w) == [obj |-> w]

\* What the holder of h reads through it, now.
Deref(h) == wfState[h.obj]

NothingHeld == [w \in {} |-> Reference(w)]

Terminal(step) == step \in {"completed", "failed"}

\* -------------------------------------------------------------- broadcast
\* The for loop of ConnectionManager.broadcast takes its next element from the
\* live list: position idx of active_connections as it is now.
LoopHasNext(b, conns) == b.idx < Len(conns)

LoopNext(b, conns) ==
    [b EXCEPT !.phase = "sending", !.cur = conns[b.idx + 1], !.idx = b.idx + 1]

\* ConnectionManager.disconnect: list.remove of the first occurrence, if any
RECURSIVE Remove(_, _)
Remove(conns, s) ==
    IF conns = <<>> THEN <<>>
    ELSE IF Head(conns) = s THEN Tail(conns)
    ELSE <<Head(conns)>> \o Remove(Tail(conns), s)

disconnect(conns, s) == Remove(conns, s)

\* "for conn in disconnected: self.disconnect(conn)"
RECURSIVE RemoveAll(_, _)
RemoveAll(conns, dis) ==
    IF dis = <<>> THEN conns ELSE RemoveAll(disconnect(conns, Head(dis)), Tail(dis))

Range(q) == {q[i] : i \in 1..Len(q)}

\* list.count
Count(q, x) == Cardinality({i \in 1..Len(q) : q[i] = x})

\* broadcast() up to its first await: disconnected = [], the first iteration.
BeginBroadcast(conns) ==
    LoopNext([IdleBroadcast EXCEPT !.stayed = Range(conns)], conns)

\* A socket leaves the list: no broadcast in flight counts it as having stayed.
Left(bcs, gone) ==
    [o \in DOMAIN bcs |-> [bcs[o] EXCEPT !.stayed = @ \ gone]]

\* A client connects or goes away while broadcasts are in flight.
Churned(bcs) ==
    [o \in DOMAIN bcs |->
        IF bcs[o].phase = "sending" THEN [bcs[o] EXCEPT !.churn = TRUE] ELSE bcs[o]]

\* ------------------------------------------------------------ handler call
\* "if progress_callback: await progress_callback(AgentProgress(...))" at the
\* end of a block of task w whose locals are tsk; ret is the block that follows.
Call(w, tsk, ev, ret, inExcept) ==
    IF tsk.cb = "absent"
    THEN /\ task' = [task EXCEPT ![w] = [tsk EXCEPT !.pc = ret]]
         /\ UNCHANGED <<published, bc>>
    ELSE /\ published' = [published EXCEPT ![w] = Append(@, ev)]
         /\ IF tsk.cb = "custom"
            THEN /\ task' = [task EXCEPT ![w] =
                        [tsk EXCEPT !.pc = "handler", !.ret = ret, !.inExcept = inExcept]]
                 /\ UNCHANGED bc
            ELSE IF active_connections = <<>>
            THEN /\ task' = [task EXCEPT ![w] = [tsk EXCEPT !.pc = ret]]
                 /\ UNCHANGED bc
            ELSE /\ task' = [task EXCEPT ![w] =
                        [tsk EXCEPT !.pc = "broadcast", !.ret = ret, !.inExcept = inExcept]]
                 /\ bc' = [bc EXCEPT ![TaskOwner(w)] = BeginBroadcast(active_connections)]

\* The except block of _execute_workflow (lines 108-120).
\* (an except block that sets the step and records no error)
FailedState_StepOnly(state, msg) == DictUpdate(state, [current_step |-> "failed"])

\* (an except block that records the error and leaves the step as it is)
FailedState_ErrorOnly(state, msg) == DictUpdate(state, [error |-> msg])

FailedState(state, msg) == DictUpdate(state, [error |-> msg, current_step |-> "failed"])

\* (a failure event that leaves the error text out)
FailureEvent_NoText(w, msg) ==
    AgentProgress(w, "workflow", <<"Workflow failed">>, 100, TRUE)

FailureEvent(w, msg) ==
    AgentProgress(w, "workflow", <<"Workflow failed: ", msg>>, 100, TRUE)

\* (an except block that writes the failure to every state of the store)
Fail_Shared(w, tsk, msg) ==
    /\ wfState' = [v \in DOMAIN wfState |-> FailedState(wfState[v], msg)]
    /\ Call(w, tsk, FailureEvent(w, msg), "done", TRUE)

Fail(w, tsk, msg) ==
    /\ wfState' = [wfState EXCEPT ![w] = FailedState(@, msg)]
    /\ Call(w, tsk, FailureEvent(w, msg), "done", TRUE)

\* ------------------------------------------------- the two later stages
\* LangChainTechnicalArchitectAgent.execute and LangChainProductManagerAgent.execute
\* (agents.py:137-210, 254-381). The engine never calls them; a caller of its own
\* may. The body of each is a try block, here the list of its blocks in order:
\* a progress report, the check of the required keys, a call of a collaborator
\* (guarded: inside a try/except of its own that swallows the fault).
Report(p) == [op |-> "report", progress |-> p, name |-> "", guarded |-> FALSE]
Check == [op |-> "check", progress |-> 0, name |-> "", guarded |-> FALSE]
Collab(n, g) == [op |-> "collab", progress |-> 0, name |-> n, guarded |-> g]

Script(stage) ==
    IF stage = "tech_architect"
    THEN <<Report(20), Check, Report(40), Collab("architect_chain", FALSE),
           Report(70), Collab("mermaid_generator", FALSE), Report(100)>>
    ELSE <<Report(20), Check, Report(40), Collab("prd_chain", FALSE),
           Report(60), Collab("mermaid_generator", FALSE),
           Report(70), Collab("document_processor", FALSE),
           Report(85), Collab("confluence_client", FALSE),
           Report(95), Collab("jira_client.create_datadev_ticket", TRUE),
           Report(100)>>

Label(stage) == IF stage = "tech_architect" THEN "tech-architect" ELSE "product-manager"

\* (stages that do not check their input)
Precondition_Skipped(stage, state) == TRUE

\* agents.py:145: "if not state.get('jira_ticket_data')"; agents.py:262:
\* "if not all(key in state for key in [...])"
Precondition(stage, state) ==
    IF stage = "tech_architect"
    THEN Truthy(DictGet(state, "jira_ticket_data"))
    ELSE \A k \in {"jira_ticket_data", "impact_analysis", "solution_architecture"} :
            k \in DOMAIN state

PreconditionError(stage) ==
    IF stage = "tech_architect"
    THEN <<"TechnicalArchitectAgent failed: ", "Jira ticket data not available">>
    ELSE <<"ProductManagerAgent failed: ", "Required data not available for PRD generation">>

\* The arguments of the first collaborator call subscript jira_ticket_data
\* (agents.py:165, 271): a value that is no mapping raises before the call.
ArgumentsOk(state) == DictGet(state, "jira_ticket_data") # None

\* The mappings the stages return (agents.py:195-205, 367-374).
StageOutputs(stage) ==
    IF stage = "tech_architect"
    THEN {[impact_analysis |-> "impact", solution_architecture |-> "solution",
           architecture_diagram |-> "diagram", current_step |-> "product_manager"]}
    ELSE {[prd |-> "prd", architecture_document |-> "document",
           mermaid_diagrams |-> "diagrams", confluence_result |-> "page",
           datadev_ticket_key |-> d, current_step |-> "completed"] :
                d \in {"DATADEV-1", None}}

\* The states a caller may pass: the state of a started workflow with any of the
\* keys of the earlier stages, the ticket data possibly None.
StageInputs ==
    {DictUpdate(InitialState("ABC-1"), r) :
        r \in UNION {[ks -> {"data", None}] : ks \in SUBSET
                {"jira_ticket_data", "impact_analysis", "solution_architecture"}}}

IdleCall ==
    [pc |-> "idle", stage |-> "none", state |-> <<>>, cb |-> "absent", idx |-> 0,
     events |-> <<>>, collaborators |-> <<>>, result |-> <<>>]

\* "except Exception as error: return {'error': ...}" (agents.py:207-210, 376-379)
Returned(c, result) == [c EXCEPT !.pc = "returned", !.result = <<result>>]

stage_invoke(stage, state, cb) ==
    /\ call.pc = "idle"
    /\ call' = [IdleCall EXCEPT !.pc = "running", !.stage = stage, !.state = <<state>>,
                                !.cb = cb, !.idx = 1]
    /\ UNCHANGED programVars

\* The block at position idx, up to its await or to the return.
stage_step ==
    /\ call.pc = "running"
    /\ LET script == Script(call.stage)
           state == call.state[1] IN
       IF call.idx > Len(script)
       THEN \E result \in StageOutputs(call.stage) : call' = Returned(call, result)
       ELSE LET step == script[call.idx] IN
            CASE step.op = "report" ->
                    IF call.cb = "absent"
                    THEN call' = [call EXCEPT !.idx = @ + 1]
                    ELSE call' = [call EXCEPT !.pc = "reporting",
                                    !.events = Append(@, <<Label(call.stage), step.progress>>)]
              [] step.op = "check" ->
                    IF Precondition(call.stage, state)
                    THEN call' = [call EXCEPT !.idx = @ + 1]
                    ELSE call' = Returned(call, ErrorResult(PreconditionError(call.stage)))
              [] step.op = "collab" ->
                    IF ArgumentsOk(state)
                    THEN call' = [call EXCEPT !.pc = "awaiting",
                                    !.collaborators = Append(@, step.name)]
                    ELSE call' = Returned(call, ErrorResult(<<"failed: ", "TypeError">>))
    /\ UNCHANGED programVars

\* The progress handler returns, or raises into the except of the stage.
report_return ==
    /\ call.pc = "reporting"
    /\ call' = [call EXCEPT !.pc = "running", !.idx = @ + 1]
    /\ UNCHANGED programVars

report_fault ==
    /\ call.pc = "reporting"
    /\ call' = Returned(call, ErrorResult(<<"failed: ", HandlerFault>>))
    /\ UNCHANGED programVars

\* The collaborator returns, or raises: into its own except if it has one, else
\* into the except of the stage.
collab_return ==
    /\ call.pc = "awaiting"
    /\ call' = [call EXCEPT !.pc = "running", !.idx = @ + 1]
    /\ UNCHANGED programVars

collab_fault ==
    /\ call.pc = "awaiting"
    /\ IF Script(call.stage)[call.idx].guarded
       THEN call' = [call EXCEPT !.pc = "running", !.idx = @ + 1]
       ELSE call' = Returned(call, ErrorResult(<<"failed: ", "collaborator fault">>))
    /\ UNCHANGED programVars

\* --------------------------------------------------------------------- Init
\* PythonWorkflowEngine.__init__ and ConnectionManager.__init__: nothing stored,
\* nobody connected, no task.
Init ==
    /\ active_workflows = {}
    /\ progress_callbacks = [w \in WorkflowIds |-> "absent"]
    /\ wfState = <<>>
    /\ task = [w \in WorkflowIds |-> NoTask]
    /\ published = [w \in WorkflowIds |-> <<>>]
    /\ request = [w \in WorkflowIds |-> "none"]
    /\ cleaned = {}
    /\ cleanup_calls = 0
    /\ held = NothingHeld
    /\ call = IdleCall
    /\ announce = [w \in WorkflowIds |-> NoAnnounce]
    /\ active_connections = <<>>
    /\ socket = [s \in Sockets |-> "new"]
    /\ bc = [o \in Owners |-> IdleBroadcast]

\* ----------------------------------------------------------- start_workflow
\* (a start_workflow that leaves the insertion to the task it launches)
StoreInsert_Deferred(store, w) == store

\* line 41: the state is stored under the new id
StoreInsert(store, w) == store \cup {w}

\* lines 43-44: "if progress_callback: self.progress_callbacks[id] = ..."
RegisterCallback(cbs, w, kind) ==
    IF kind = "none" THEN cbs ELSE [cbs EXCEPT ![w] = kind]

\* (a start_workflow that awaits _execute_workflow instead of scheduling it)
CreatedTask_Awaited ==
    [NoTask EXCEPT !.pc = "get_ticket", !.invoked = <<"jira_analyst">>]

\* line 47: asyncio.create_task schedules the coroutine; it has not run when
\* start_workflow returns.
CreatedTask == [NoTask EXCEPT !.pc = "created"]

\* PythonWorkflowEngine.start_workflow(ticket, handler); it holds no await that
\* suspends, so it is one step. uuid4 gives an id never given before. With the
\* handler of main.start_workflow the caller is that request handler, which goes
\* on to broadcast the started message (main.py:107) before it responds.
start_workflow(ticket, kind) ==
    /\ Len(wfState) < MaxWorkflows
    /\ LET w == Len(wfState) + 1 IN
        /\ wfState' = Append(wfState, InitialState(ticket))
        /\ active_workflows' = StoreInsert(active_workflows, w)
        /\ progress_callbacks' = RegisterCallback(progress_callbacks, w, kind)
        /\ task' = [task EXCEPT ![w] = CreatedTask]
        /\ IF kind = "broadcast" /\ active_connections # <<>>
           THEN /\ request' = [request EXCEPT ![w] = "announcing"]
                /\ bc' = [bc EXCEPT ![ReqOwner(w)] = BeginBroadcast(active_connections)]
           ELSE /\ request' = [request EXCEPT ![w] =
                                IF kind = "broadcast" THEN "responded" ELSE "returned"]
                /\ UNCHANGED bc
    /\ UNCHANGED <<published, cleaned, announce, call, cleanup_calls, held,
                   active_connections, socket>>

\* -------------------------------------------------------- _execute_workflow
\* lines 53-58 and the analyst's first progress report (agents.py:48-49).
\* (an analyst that reports the work left instead of the work done)
ProgressEvent_Remaining(w, text, progress) ==
    AgentProgress(w, "jira-analyst", <<text>>, 100 - progress, FALSE)

ProgressEvent(w, text, progress) ==
    AgentProgress(w, "jira-analyst", <<text>>, progress, FALSE)

\* (a task that was handed the state object when it was created)
TaskState_Captured(w) == <<wfState[w]>>

\* line 53: state = self.active_workflows.get(workflow_id), read when the task
\* first runs (<<state>> or <<>>)
TaskState(w) == IF w \in active_workflows THEN <<wfState[w]>> ELSE <<>>

execute_begin(w) ==
    /\ task[w].pc = "created"
    /\ IF TaskState(w) = <<>>
       THEN /\ task' = [task EXCEPT ![w].pc = "exited"]
            /\ UNCHANGED <<published, bc>>
       ELSE Call(w, [task[w] EXCEPT !.cb = progress_callbacks[w],
                                    !.invoked = Append(@, "jira_analyst")],
                 ProgressEvent(w, "Starting ticket data fetch...", 10),
                 "get_ticket", FALSE)
    /\ UNCHANGED <<active_workflows, progress_callbacks, wfState, request, cleaned,
                   announce, call, cleanup_calls, held, active_connections, socket>>

\* agents.py:58: jira_client.get_ticket returns the ticket or raises; the fault
\* reaches the except block of _execute_workflow.
get_ticket(w) ==
    /\ task[w].pc = "get_ticket"
    /\ \/ /\ Call(w, task[w],
                  ProgressEvent(w, "Exporting ticket data to Excel...", 30),
                  "export", FALSE)
          /\ UNCHANGED wfState
       \/ Fail(w, [task[w] EXCEPT !.stage = "raised"], FetchError)
    /\ UNCHANGED <<active_workflows, progress_callbacks, request, cleaned, announce,
                   call, cleanup_calls, held, active_connections, socket>>

\* agents.py:69-93: the export gives a file or None (its faults are swallowed).
export_excel(w) ==
    /\ task[w].pc = "export"
    /\ Call(w, task[w], ProgressEvent(w, "Creating HSD ticket...", 70),
            "create_hsd", FALSE)
    /\ UNCHANGED <<active_workflows, progress_callbacks, wfState, request, cleaned,
                   announce, call, cleanup_calls, held, active_connections, socket>>

\* agents.py:96-107: create_hsd_ticket gives a key or None (faults swallowed).
create_hsd_ticket(w) ==
    /\ task[w].pc = "create_hsd"
    /\ Call(w, task[w], ProgressEvent(w, "Workflow completed successfully", 100),
            "return", FALSE)
    /\ UNCHANGED <<active_workflows, progress_callbacks, wfState, request, cleaned,
                   announce, call, cleanup_calls, held, active_connections, socket>>

\* (an engine that does not look at the error marker)
IsErrorResult_Ignored(result) == FALSE

\* workflow_engine.py:75: "if analyst_result.get('error')"
IsErrorResult(result) == Truthy(DictGet(result, "error"))

\* (a merge that replaces the state by the result)
MergedState_Replace(state, result) ==
    DictUpdate(result, [currentAgent |-> "completed"])

\* workflow_engine.py:79-80: state.update(result); state['currentAgent'] = 'completed'
MergedState(state, result) ==
    DictUpdate(DictUpdate(state, result), [currentAgent |-> "completed"])

\* (an engine that stores the merged state under the id again)
StoreAfterUpdate_Reinsert(store, w) == store \cup {w}

\* workflow_engine.py:79: state.update mutates the dict object the task got at
\* line 53; the task never assigns into self.active_workflows.
StoreAfterUpdate(store, w) == store

\* The results the stage call can return: the analyst's mapping, or the error
\* marker of the Agent Step contract.
StageResults(w) ==
    {AnalystResult(wfState[w].jira_ticket_id, excel, hsd) :
        excel \in {"export.xlsx", None}, hsd \in {"HSD-1", None}}
    \cup {ErrorResult(StageError)}

\* What the stage returned: an error marker or a mapping to merge.
ResultKind(result) == IF "error" \in DOMAIN result THEN "error" ELSE "result"

\* workflow_engine.py:73-89: the stage returns; an error result is raised into
\* the except block, any other is merged and the stage's completion reported.
StageReturn(w, results) ==
    /\ task[w].pc = "return"
    /\ \E result \in results :
         LET tsk == [task[w] EXCEPT !.stage = ResultKind(result)] IN
         IF IsErrorResult(result)
         THEN Fail(w, tsk, result.error)
         ELSE /\ wfState' = [wfState EXCEPT ![w] = MergedState(@, result)]
              /\ Call(w, tsk,
                      AgentProgress(w, "jira-analyst",
                          <<"Ticket data fetch and Excel export completed">>, 100, TRUE),
                      "mark_completed", FALSE)
    /\ active_workflows' = StoreAfterUpdate(active_workflows, w)
    /\ UNCHANGED <<progress_callbacks, request, cleaned, announce, call, cleanup_calls,
                   held, active_connections, socket>>

stage_return(w) == StageReturn(w, StageResults(w))

\* The stage call with a stage put in the analyst's place that always succeeds
\* and returns the mapping {"x": 1}.
StubResults == {[x |-> 1]}

stub_return(w) == StageReturn(w, StubResults)

\* workflow_engine.py:94-95
CompletedState(state) ==
    DictUpdate(state, [current_step |-> "completed", currentAgent |-> "completed"])

\* (a completion event without the completed flag)
CompletionEvent_Unflagged(w) ==
    AgentProgress(w, "workflow", <<"LangChain workflow completed successfully">>, 100, FALSE)

\* workflow_engine.py:98-104
CompletionEvent(w) ==
    AgentProgress(w, "workflow", <<"LangChain workflow completed successfully">>, 100, TRUE)

\* workflow_engine.py:94-104
mark_completed(w) ==
    /\ task[w].pc = "mark_completed"
    /\ wfState' = [wfState EXCEPT ![w] = CompletedState(@)]
    /\ Call(w, task[w], CompletionEvent(w), "done", FALSE)
    /\ UNCHANGED <<active_workflows, progress_callbacks, request, cleaned, announce,
                   call, cleanup_calls, held, active_connections, socket>>

\* ------------------------------------------------------- a custom handler
\* A handler other than main's returns ...
handler_return(w) ==
    /\ task[w].pc = "handler"
    /\ task' = [task EXCEPT ![w].pc = task[w].ret]
    /\ UNCHANGED <<active_workflows, progress_callbacks, wfState, published, request,
                   cleaned, announce, call, cleanup_calls, held, active_connections,
                   socket, bc>>

\* ... or raises. Every handler call but the last is inside the try (lines 60-106,
\* the analyst's calls included): the fault reaches the except block. The call of
\* the except block itself (line 114) is not guarded: the fault ends the task.
handler_fault(w) ==
    /\ task[w].pc = "handler"
    /\ IF task[w].inExcept
       THEN /\ task' = [task EXCEPT ![w].pc = "crashed"]
            /\ UNCHANGED <<wfState, published, bc>>
       ELSE Fail(w, task[w], HandlerFault)
    /\ UNCHANGED <<active_workflows, progress_callbacks, request, cleaned, announce,
                   call, cleanup_calls, held, active_connections, socket>>

\* ---------------------------------------------------------- cleanup_workflow
\* (a cleanup that forgets the handler and keeps the entry)
StoreRemove_Keep(store, w) == store

\* (a cleanup that empties the store)
StoreRemove_Clear(store, w) == {}

\* lines 132-133: "if workflow_id in self.active_workflows: del ..."
StoreRemove(store, w) == store \ {w}

\* workflow_engine.py:130-135, for any id, present or not
cleanup_workflow(w) ==
    /\ cleanup_calls < MaxCleanups
    /\ active_workflows' = StoreRemove(active_workflows, w)
    /\ progress_callbacks' = [progress_callbacks EXCEPT ![w] = "absent"]
    /\ cleaned' = cleaned \cup {w}
    /\ cleanup_calls' = cleanup_calls + 1
    /\ UNCHANGED <<wfState, task, published, request, held, call, announce,
                   active_connections, socket, bc>>

\* ------------------------------------------------------------- a reader
\* A caller of get_workflow_status(w) that got a state back keeps what it got.
read_status(w) ==
    /\ get_workflow_status(w) # <<>>
    /\ held' = [v \in {w} |-> Reference(v)]
    /\ UNCHANGED <<active_workflows, progress_callbacks, wfState, task, published,
                   request, cleaned, announce, call, cleanup_calls, active_connections,
                   socket, bc>>

\* A caller of get_all_workflows keeps the mapping it got: the keys as they were,
\* the state objects of the store as values.
read_all ==
    /\ DOMAIN get_all_workflows # {}
    /\ held' = [v \in DOMAIN get_all_workflows |-> Reference(v)]
    /\ UNCHANGED <<active_workflows, progress_callbacks, wfState, task, published,
                   request, cleaned, announce, call, cleanup_calls, active_connections,
                   socket, bc>>

\* The reader's own change of a state it holds: an item assignment.
ReaderNote == [reader_note |-> "note"]

reader_write(w) ==
    /\ w \in DOMAIN held
    /\ "reader_note" \notin DOMAIN Deref(held[w])
    /\ wfState' = [wfState EXCEPT ![held[w].obj] = DictUpdate(@, ReaderNote)]
    /\ UNCHANGED <<active_workflows, progress_callbacks, task, published, request,
                   cleaned, announce, call, cleanup_calls, held, active_connections,
                   socket, bc>>

\* ---------------------------------------------------------- the notifier
\* websocket_endpoint up to its receive loop (main.py:152-163): accept, append.
connect(s) ==
    /\ socket[s] = "new"
    /\ socket' = [socket EXCEPT ![s] = "open"]
    /\ active_connections' = Append(active_connections, s)
    /\ bc' = Churned(bc)
    /\ UNCHANGED engineVars

\* main.py:167-168: the client goes away, the endpoint calls manager.disconnect.
client_disconnect(s) ==
    /\ socket[s] = "open"
    /\ socket' = [socket EXCEPT ![s] = "closed"]
    /\ active_connections' = disconnect(active_connections, s)
    /\ bc' = Churned(Left(bc, {s}))
    /\ UNCHANGED engineVars

\* The caller of a finished broadcast() goes on: the task at the block after the
\* handler call, the request with its response.
Resume(o) ==
    IF o[1] = "task"
    THEN /\ task' = [task EXCEPT ![o[2]].pc = task[o[2]].ret]
         /\ UNCHANGED request
    ELSE /\ request' = [request EXCEPT ![o[2]] = "responded"]
         /\ UNCHANGED task

\* main.py:36-44 after a send_text has returned or raised, b the call's locals:
\* the next iteration if the live list has a position idx, else the removal of
\* the connections collected in disconnected, and the return.
Advance(o, b) ==
    IF LoopHasNext(b, active_connections)
    THEN /\ bc' = [bc EXCEPT ![o] = LoopNext(b, active_connections)]
         /\ UNCHANGED <<active_connections, task, request>>
    ELSE /\ active_connections' = RemoveAll(active_connections, b.disconnected)
         /\ bc' = Left([bc EXCEPT ![o] = IdleBroadcast], Range(b.disconnected))
         /\ Resume(o)

\* What the subscribers of the started message of a workflow and of its progress
\* events have got, after the send_text of the broadcast() call of o has returned
\* (delivered) or raised:
\*   got         the connections the started message was delivered to
\*   early       the connections a progress event was delivered to when the
\*               started message had neither been delivered nor was being sent
\*               to them
\*   throughout  once the broadcast of the started message has returned: the
\*               connections registered from its begin to its end
Announced(o, delivered) ==
    LET w == o[2]
        s == bc[o].cur
        a == announce[w]
        req == bc[ReqOwner(w)]
        a1 == IF ~delivered THEN a
              ELSE IF o[1] = "req" THEN [a EXCEPT !.got = @ \cup {s}]
              ELSE IF s \notin a.got /\ ~(req.phase = "sending" /\ req.cur = s)
                   THEN [a EXCEPT !.early = @ \cup {s}]
                   ELSE a
        last == ~LoopHasNext(bc[o], active_connections)
        gone == IF delivered THEN {} ELSE {s}
    IN  [announce EXCEPT ![w] =
            IF o[1] = "req" /\ last
            THEN [a1 EXCEPT !.throughout = bc[o].stayed \ (Range(bc[o].disconnected) \cup gone)]
            ELSE a1]

\* main.py:38: send_text returns
send_ok(o) ==
    /\ bc[o].phase = "sending"
    /\ socket[bc[o].cur] = "open"
    /\ Advance(o, [bc[o] EXCEPT !.sent = Append(@, bc[o].cur)])
    /\ announce' = Announced(o, TRUE)
    /\ UNCHANGED <<active_workflows, progress_callbacks, wfState, published, cleaned,
                   call, cleanup_calls, held, socket>>

\* main.py:39-40: send_text raises, the connection is collected
send_fault(o) ==
    /\ bc[o].phase = "sending"
    /\ Advance(o, [bc[o] EXCEPT !.disconnected = Append(@, bc[o].cur)])
    /\ announce' = Announced(o, FALSE)
    /\ UNCHANGED <<active_workflows, progress_callbacks, wfState, published, cleaned,
                   call, cleanup_calls, held, socket>>

\* The shape of the state: the two dicts of the engine (workflow_engine.py:16-17),
\* the state objects, the tasks, the list of the ConnectionManager (main.py:23).
TypeOK ==
    /\ active_workflows \subseteq started
    /\ progress_callbacks \in [WorkflowIds -> {"absent", "broadcast", "custom"}]
    /\ \A w \in started :
          /\ DOMAIN InitialState("t") \subseteq DOMAIN wfState[w]
          /\ wfState[w].jira_ticket_id \in TicketIds
          /\ task[w].pc # "none"
    /\ \A w \in WorkflowIds \ started : task[w] = NoTask /\ request[w] = "none"
    /\ cleaned \subseteq started
    /\ cleanup_calls \in 0..MaxCleanups
    /\ DOMAIN held \subseteq started
    /\ \A w \in DOMAIN held : held[w] = Reference(w)
    /\ call.pc \in {"idle", "running", "reporting", "awaiting", "returned"}
    /\ \A w \in WorkflowIds :
          announce[w].got \cup announce[w].early \cup announce[w].throughout \subseteq Sockets
    /\ Range(active_connections) \subseteq {s \in Sockets : socket[s] = "open"}
    /\ \A s \in Sockets : Count(active_connections, s) <= 1
    /\ \A o \in Owners : bc[o].phase \in {"idle", "sending"}

\* --------------------------------------------------------------------- Next
\* The steps of the task of a workflow.
TaskStep(w) ==
    \/ execute_begin(w)
    \/ get_ticket(w)
    \/ export_excel(w)
    \/ create_hsd_ticket(w)
    \/ stage_return(w)
    \/ mark_completed(w)

\* The engine under callers of its own interface: a workflow is started with no
\* handler or with a handler that returns or raises as it likes.
EngineStart ==
    \E t \in TicketIds, k \in HandlerKinds \ {"broadcast"} : start_workflow(t, k)

Next ==
    \/ EngineStart
    \/ \E w \in WorkflowIds : TaskStep(w)
    \/ \E w \in WorkflowIds : handler_return(w)
    \/ \E w \in WorkflowIds : handler_fault(w)
    \/ \E w \in started : cleanup_workflow(w)

Spec == Init /\ [][Next]_vars

\* The engine whose one stage is the analyst or the stage that returns {"x": 1}.
NextStub ==
    \/ EngineStart
    \/ \E w \in WorkflowIds : TaskStep(w)
    \/ \E w \in WorkflowIds : stub_return(w)
    \/ \E w \in WorkflowIds : handler_return(w)
    \/ \E w \in WorkflowIds : handler_fault(w)

SpecStub == Init /\ [][NextStub]_vars

\* The two later stages under a caller of their own.
NextStages ==
    \/ \E stage \in {"tech_architect", "product_manager"}, state \in StageInputs,
          cb \in {"absent", "custom"} : stage_invoke(stage, state, cb)
    \/ stage_step
    \/ report_return
    \/ report_fault
    \/ collab_return
    \/ collab_fault

SpecStages == Init /\ [][NextStages]_vars

\* The engine with a reader in the same process, which reads states, keeps what
\* it got and may write to it.
NextReader ==
    \/ EngineStart
    \/ \E w \in WorkflowIds : TaskStep(w)
    \/ \E w \in WorkflowIds : handler_return(w)
    \/ \E w \in WorkflowIds : handler_fault(w)
    \/ \E w \in started : read_status(w)
    \/ read_all
    \/ \E w \in started : reader_write(w)

SpecReader == Init /\ [][NextReader]_vars

\* The server of main.py: workflows are started by POST /workflow/start, whose
\* handler broadcasts; websockets connect and go away. main.py has no route to
\* cleanup_workflow.
HttpStart ==
    /\ Len(wfState) < MaxRequests
    /\ \E t \in TicketIds : start_workflow(t, "broadcast")

NextServer ==
    \/ HttpStart
    \/ \E w \in WorkflowIds : TaskStep(w)
    \/ \E s \in Sockets : connect(s)
    \/ \E s \in Sockets : client_disconnect(s)
    \/ \E o \in Owners : send_ok(o)
    \/ \E o \in Owners : send_fault(o)

SpecServer == Init /\ [][NextServer]_vars

\* The server with a subscriber whose send_text may never return: the event loop
\* runs every task that can run, every stage call returns or raises, and every
\* send_text returns or raises but, possibly, those to the connection HungSocket.
HungSocket == CHOOSE s \in Sockets : \A t \in Sockets : s <= t

SendCompletes(o) == (send_ok(o) \/ send_fault(o)) /\ bc[o].cur # HungSocket

FairSpecServer ==
    /\ SpecServer
    /\ \A w \in WorkflowIds : WF_vars(TaskStep(w))
    /\ \A o \in Owners : WF_vars(SendCompletes(o))

\* ------------------------------------------------------------------ claims
current_step(w) == wfState[w].current_step

\* The keys the stage adds to the state a workflow starts with.
StageOutputKeys == OutputKeys \ DOMAIN InitialState("t")

\* C1: every workflow start_workflow has returned an id for, and cleanup was not
\* called for, is found by get_status, whatever its task and the other workflows
\* have done meanwhile.
C1_StatusAfterStart ==
    \A w \in started : w \notin cleaned => StatusFound(w)

\* C1 witness: start_workflow has just returned for w (its task has not run)
\* while the task of another workflow is under way, and w is found.
C1_Witness ==
    \E w, v \in started :
        /\ w # v
        /\ w \notin cleaned
        /\ task[w].pc = "created"
        /\ task[v].pc \notin {"created", "done"}
        /\ StatusFound(w)

\* The changes of current_step the design allows: along the stage sequence, from
\* the last stage that is configured to run (here the first) to completed, and
\* from any value that is not terminal to failed.
AllowedEdges ==
    {<<"jira_analyst", "tech_architect">>, <<"tech_architect", "product_manager">>,
     <<"product_manager", "completed">>, <<"jira_analyst", "completed">>}
    \cup {<<a, "failed">> : a \in {"jira_analyst", "tech_architect", "product_manager"}}

\* C2: every change of a workflow's current_step is an allowed edge; there is
\* none out of completed or failed.
C2_StepEdges ==
    [][\A w \in started :
          current_step(w) # wfState'[w].current_step
              => <<current_step(w), wfState'[w].current_step>> \in AllowedEdges]_vars

\* C3: once the stage has returned an error result, the state has current_step
\* failed and the stage's message as error, holds none of the stage's output
\* keys, and no stage but the failing one was invoked.
C3_ErrorResultFails ==
    \A w \in started :
        task[w].stage = "error" =>
            /\ current_step(w) = "failed"
            /\ DictGet(wfState[w], "error") = StageError
            /\ StageOutputKeys \cap DOMAIN wfState[w] = {}
            /\ task[w].invoked = <<"jira_analyst">>

\* C3 witness: a task has ended after its stage returned an error result.
C3_Witness ==
    \E w \in started :
        /\ task[w].stage = "error"
        /\ task[w].pc \in {"done", "crashed"}
        /\ current_step(w) = "failed"

\* C4: no workflow exists for an empty ticket id: nothing stored, no handler
\* registered, no task launched, no id returned.
C4_EmptyTicketRejected ==
    \A w \in started :
        wfState[w].jira_ticket_id = "" =>
            /\ w \notin active_workflows
            /\ progress_callbacks[w] = "absent"
            /\ task[w].pc = "none"
            /\ request[w] = "none"

\* C5: at the step in which start_workflow returns the id of a workflow, no stage
\* of it has begun; and when its stage later fails, the error is in its state and
\* the call that started it has returned its id all the same.
C5_ReturnsBeforeStages ==
    /\ [][\A w \in WorkflowIds :
            (w \notin started /\ w \in started') =>
                /\ request'[w] \in {"returned", "announcing", "responded"}
                /\ task'[w].pc = "created"
                /\ task'[w].invoked = <<>>]_vars
    /\ [](\A w \in started :
            task[w].stage \in {"error", "raised"} =>
                /\ current_step(w) = "failed"
                /\ DictGet(wfState[w], "error") \in {StageError, FetchError}
                /\ request[w] = "returned")

\* C5 witness: the id was returned, and the stage has failed since.
C5_Witness ==
    \E w \in started :
        /\ request[w] = "returned"
        /\ task[w].stage = "raised"
        /\ DictGet(wfState[w], "error") = FetchError

\* C6: a workflow fails only when its stage failed, never for a fault of its
\* progress handler: with a stage that returned a result it is never failed, and
\* the task never ends with the handler's fault.
C6_HandlerFaultIsolated ==
    \A w \in started :
        /\ current_step(w) = "failed" => task[w].stage \in {"error", "raised"}
        /\ DictGet(wfState[w], "error") # HandlerFault

\* The step in which the broadcast() call of o returns.
Ends(o) == bc[o].phase = "sending" /\ bc'[o].phase = "idle"

\* The connections a broadcast() call has awaited a send_text to, the one it is
\* awaiting included, in order.
Attempts(b) == b.sent \o b.disconnected \o <<b.cur>>

\* C7: when a broadcast returns, with no client having connected or gone away
\* meanwhile, it has sent the event to every connection registered since it
\* began, and no connection whose send faulted in it is registered any more (a
\* connection once removed is never appended again, so it is sent nothing later).
C7_BroadcastSelfHeals ==
    [][\A o \in Owners :
          Ends(o) =>
              /\ ~bc[o].churn => bc[o].stayed \subseteq Range(Attempts(bc[o]))
              /\ Range(bc[o].disconnected) \cap Range(active_connections') = {}]_vars

\* C8: when a broadcast returns, every connection registered ever since it began
\* was sent the event exactly once, whatever connected or went away meanwhile.
C8_ExactlyOnce ==
    [][\A o \in Owners :
          Ends(o) => \A s \in bc[o].stayed : Count(Attempts(bc[o]), s) = 1]_vars

\* C9: every started workflow reaches completed or failed, also when the send to
\* one subscriber never completes.
C9_WorkflowTerminates ==
    \A w \in WorkflowIds :
        (w \in started) ~> (w \in started /\ Terminal(current_step(w)))

\* A broadcast in flight has not yet sent its event to s, registered all along.
Waiting(o, s) ==
    /\ bc[o].phase = "sending"
    /\ s \in bc[o].stayed
    /\ s \notin Range(Attempts(bc[o]))

\* C10: a subscriber other than the one whose delivery never completes does not
\* wait for ever for an event being broadcast.
C10_NoHeadOfLineBlocking ==
    \A o \in Owners : \A s \in Sockets \ {HungSocket} :
        Waiting(o, s) ~> ~Waiting(o, s)

\* C11 as stated: the count of list_workflows is the number of start_workflow
\* calls minus the number of cleanup calls.
C11_CountIsStartsMinusCalls ==
    list_workflows.count = Len(wfState) - cleanup_calls

\* C11: the count of list_workflows is the number of start_workflow calls minus
\* the number of ids cleanup was called with (a cleanup of an id that is not
\* stored removes nothing and does not count).
C11_CountIsStartsMinusRemoved ==
    list_workflows.count = Len(wfState) - Cardinality(cleaned)

\* C11 witness: cleanup was called twice for a workflow while another is stored.
C11_Witness ==
    /\ cleanup_calls = 2
    /\ Cardinality(cleaned) = 1
    /\ list_workflows.count = 1

\* C12: once cleanup was called for a workflow, get_status does not find it, in
\* every later state, whatever its task goes on to do.
C12_NotFoundAfterCleanup ==
    \A w \in cleaned : get_workflow_status(w) = <<>> /\ ~StatusFound(w)

\* C12 witness: cleanup was called for a workflow whose task is still running and
\* has merged the stage's result; the workflow is not found.
C12_Witness ==
    \E w \in cleaned :
        /\ task[w].pc = "mark_completed"
        /\ task[w].stage = "result"
        /\ ~StatusFound(w)

\* The step is a call of cleanup_workflow.
CleanupStep == cleanup_calls' = cleanup_calls + 1

\* C13: a cleanup call removes the entry of its id and nothing else, leaves every
\* state object as it is, and changes nothing when the id is not stored; no other
\* step removes an entry, so a workflow that has ended and was not cleaned up is
\* found.
C13_CleanupFrame ==
    /\ [][/\ CleanupStep =>
               \E w \in started :
                   /\ cleaned' = cleaned \cup {w}
                   /\ active_workflows' = active_workflows \ {w}
                   /\ \A v \in started \ {w} : get_workflow_status(v)' = get_workflow_status(v)
                   /\ wfState' = wfState
                   /\ w \notin active_workflows =>
                          /\ active_workflows' = active_workflows
                          /\ progress_callbacks' = progress_callbacks
           /\ ~CleanupStep => active_workflows \subseteq active_workflows']_vars
    /\ [](\A w \in started \ cleaned : Terminal(current_step(w)) => StatusFound(w))

\* C13 witness: cleanup was called twice, the second time for an id that was no
\* longer stored, and another workflow, which has ended, is found.
C13_Witness ==
    \E w \in cleaned, v \in active_workflows :
        /\ cleanup_calls = 2
        /\ cleaned = {w}
        /\ Terminal(current_step(v))
        /\ StatusFound(v)

\* What the reader sees in the value it holds.
ReaderView == [w \in DOMAIN held |-> Deref(held[w])]

\* The step is the reader's write to the state it holds for w.
ReaderWrites(w) ==
    /\ w \in DOMAIN held
    /\ "reader_note" \notin DOMAIN wfState[w]
    /\ "reader_note" \in DOMAIN wfState'[w]

\* C14: what a reader got from get_status or list_workflows reads the same after
\* every step of the engine, and a write of the reader to it leaves what the
\* store holds as it was.
C14_ReadsAreSnapshots ==
    [][/\ (held' = held /\ \A w \in started : ~ReaderWrites(w))
            => ReaderView' = ReaderView
       /\ \A w \in started :
            ReaderWrites(w) => get_workflow_status(w)' = get_workflow_status(w)]_vars

\* C15: a state whose current_step is failed has an error message, none of the
\* stage's output keys, no status equal to completed and no currentAgent equal
\* to completed.
C15_FailedLooksFailed ==
    \A w \in started :
        current_step(w) = "failed" =>
            /\ Truthy(DictGet(wfState[w], "error"))
            /\ StageOutputKeys \cap DOMAIN wfState[w] = {}
            /\ DictGet(wfState[w], "status") # "completed"
            /\ DictGet(wfState[w], "currentAgent") # "completed"

\* The step is one of the task of workflow w (or of a handler call of it).
TaskStepOf(w) == task[w].pc # "none" /\ task'[w] # task[w]

\* C16: a step of the task of one workflow, be it a merge, the completion or a
\* failure, leaves the state of every other workflow, and what get_status
\* answers for it, unchanged.
C16_TasksIsolated ==
    [][\A w \in started :
          TaskStepOf(w) =>
              \A v \in started \ {w} :
                  /\ wfState'[v] = wfState[v]
                  /\ get_workflow_status(v)' = get_workflow_status(v)]_vars

\* C16 witness: two workflows are in flight; one has ended, failed, while the
\* stage of the other is under way, its state as it was started.
C16_Witness ==
    \E w, v \in started :
        /\ w # v
        /\ current_step(w) = "failed"
        /\ task[v].pc \in {"get_ticket", "export", "create_hsd", "return"}
        /\ wfState[v] = InitialState(wfState[v].jira_ticket_id)

\* C17: the call of a stage's execute ends with a returned mapping, a result or
\* an error marker, and never with a fault raised to the engine.
C17_StageNeverRaises ==
    \A w \in started :
        /\ task[w].stage \in {"none", "result", "error"}
        /\ task[w].stage # "none" => task[w].invoked = <<"jira_analyst">>

\* The accumulated results of a state: every key but the step and agent labels.
Results(state) ==
    [k \in DOMAIN state \ {"current_step", "currentAgent"} |-> state[k]]

\* C18: from a state whose current_step is completed or failed, no step changes
\* the accumulated results of the workflow.
C18_ResultsFrozen ==
    [][\A w \in started :
          Terminal(current_step(w)) => Results(wfState'[w]) = Results(wfState[w])]_vars

\* C19: once a stage has raised a fault, the workflow is failed with the fault's
\* message as error, and its task does not end with an exception.
C19_StageFaultCaught ==
    \A w \in started :
        task[w].stage = "raised" =>
            /\ current_step(w) = "failed"
            /\ DictGet(wfState[w], "error") = FetchError
            /\ task[w].pc # "crashed"

\* C20: the task of a workflow calls the ticket analysis stage and no other, at
\* most once; the step in which that stage returns a result marks the workflow
\* completed, and a task that ended after it with no error recorded has left the
\* workflow completed.
C20_OnlyFirstStage ==
    /\ [](\A w \in WorkflowIds : task[w].invoked \in {<<>>, <<"jira_analyst">>})
    /\ [][\A w \in started :
            (task[w].stage = "none" /\ task'[w].stage = "result") =>
                /\ wfState'[w].current_step = "completed"
                /\ task'[w].invoked = <<"jira_analyst">>]_vars
    /\ [](\A w \in started :
            (task[w].pc = "done" /\ task[w].stage = "result"
                /\ "error" \notin DOMAIN wfState[w]) =>
                    current_step(w) = "completed")

\* C20 witness: a task has ended after its one stage call returned a result, and
\* the workflow is completed.
C20_Witness ==
    \E w \in started :
        /\ task[w].pc = "done"
        /\ task[w].stage = "result"
        /\ task[w].invoked = <<"jira_analyst">>
        /\ current_step(w) = "completed"
        /\ wfState[w].currentAgent = "completed"

\* The accumulated results of a state: the keys beside the fields a workflow is
\* created with (ticket id, step and agent labels, metadata).
AccumulatedResults(state) ==
    [k \in DOMAIN state \ DOMAIN InitialState("t") |-> state[k]]

\* The mappings a stage call can return as a success.
SuccessResults(w) == {r \in StageResults(w) \cup StubResults : "error" \notin DOMAIN r}

\* C21: the step in which the stage returns a mapping leaves every returned key
\* with the returned value and every other key, the agent label apart, with its
\* prior value; and a workflow started with no handler whose stage returned
\* {"x": 1} ends completed with {"x": 1} as its accumulated results.
C21_MergeOverrides ==
    /\ [][\A w \in started :
            (task[w].stage = "none" /\ task'[w].stage = "result") =>
                \E result \in SuccessResults(w) :
                    /\ DOMAIN wfState'[w] = DOMAIN wfState[w] \cup DOMAIN result
                    /\ \A k \in DOMAIN result : wfState'[w][k] = result[k]
                    /\ \A k \in DOMAIN wfState[w] \ (DOMAIN result \cup {"currentAgent"}) :
                          wfState'[w][k] = wfState[w][k]]_vars
    /\ [](\A w \in started :
            (task[w].pc = "done" /\ task[w].cb = "absent" /\ "x" \in DOMAIN wfState[w]) =>
                /\ current_step(w) = "completed"
                /\ AccumulatedResults(wfState[w]) = [x |-> 1])

\* C21 witness: a workflow started for ABC-1 with no handler has ended after its
\* stage returned {"x": 1}.
C21_Witness ==
    \E w \in started :
        /\ task[w].pc = "done"
        /\ task[w].cb = "absent"
        /\ wfState[w].jira_ticket_id = "ABC-1"
        /\ current_step(w) = "completed"
        /\ AccumulatedResults(wfState[w]) = [x |-> 1]

\* The stage of w has failed: it raised, or it returned an error marker.
StageFailed(tsk) == tsk.stage \in {"raised", "error"}

Last(q) == q[Len(q)]

\* C22: the step in which the stage of a workflow fails records current_step
\* failed and the error, and hands the handler, if there is one, one event with
\* progress 100, completed and the error text in its message, the state being
\* failed by then; from then on that event stays the last one published.
C22_FailureEventLast ==
    /\ [][\A w \in started :
            (~StageFailed(task[w]) /\ StageFailed(task'[w])) =>
                /\ wfState'[w].current_step = "failed"
                /\ wfState'[w].error \in {FetchError, StageError}
                /\ IF task'[w].cb = "absent"
                   THEN published'[w] = published[w]
                   ELSE published'[w] =
                            Append(published[w],
                                   AgentProgress(w, "workflow",
                                       <<"Workflow failed: ", wfState'[w].error>>,
                                       100, TRUE))]_vars
    /\ [][\A w \in started :
            StageFailed(task[w]) => published'[w] = published[w]]_vars
    /\ [](\A w \in started :
            (StageFailed(task[w]) /\ task[w].cb # "absent") =>
                /\ Last(published[w]).completed
                /\ Last(published[w]).progress = 100
                /\ Last(published[w]).message = <<"Workflow failed: ", wfState[w].error>>
                /\ \A i \in 1..(Len(published[w]) - 1) : ~published[w][i].completed)

\* C22 witness: the task of a workflow with a handler has ended after its stage
\* raised; the failure event was published.
C22_Witness ==
    \E w \in started :
        /\ task[w].stage = "raised"
        /\ task[w].cb = "custom"
        /\ task[w].pc = "done"
        /\ Len(published[w]) = 2
        /\ Last(published[w]).agent = "workflow"

\* A collaborator of the analyst faulted in the run of w: the ticket fetch raised,
\* or the export or the creation of the follow-up ticket faulted, which the
\* analyst turns into the value None of excel_export or hsd_ticket_key.
CollaboratorFaulted(w) ==
    \/ task[w].stage = "raised"
    \/ DictGet(wfState[w], "excel_export") = None /\ "excel_export" \in DOMAIN wfState[w]
    \/ DictGet(wfState[w], "hsd_ticket_key") = None /\ "hsd_ticket_key" \in DOMAIN wfState[w]

LacksRequired(stage, state) ==
    IF stage = "tech_architect"
    THEN "jira_ticket_data" \notin DOMAIN state
    ELSE \E k \in {"jira_ticket_data", "impact_analysis", "solution_architecture"} :
            k \notin DOMAIN state

\* C24: a stage called with a state that lacks a required key calls no
\* collaborator, and what it returns is an error marker with no other key.
C24_MissingKeyFailsClosed ==
    (call.pc # "idle" /\ LacksRequired(call.stage, call.state[1])) =>
        /\ call.collaborators = <<>>
        /\ call.pc = "returned" => DOMAIN call.result[1] = {"error"}

\* C24 witness: the requirements stage, called with a handler and a state that
\* has the ticket data but no impact analysis, has returned.
C24_Witness ==
    /\ call.pc = "returned"
    /\ call.stage = "product_manager"
    /\ "jira_ticket_data" \in DOMAIN call.state[1]
    /\ "impact_analysis" \notin DOMAIN call.state[1]
    /\ call.events = <<<<"product-manager", 20>>>>
    /\ call.result[1] = ErrorResult(PreconditionError("product_manager"))

\* The progress values published for w under an agent label, in order.
RECURSIVE ProgressOf(_, _)
ProgressOf(events, agent) ==
    IF events = <<>> THEN <<>>
    ELSE IF Head(events).agent = agent
         THEN <<Head(events).progress>> \o ProgressOf(Tail(events), agent)
         ELSE ProgressOf(Tail(events), agent)

NonDecreasing(q) == \A i, j \in 1..Len(q) : i <= j => q[i] <= q[j]

\* C25: the progress values published for a workflow under one agent label are
\* integers of 0..100 that never decrease; and the analyst's label carries 100
\* only once the fetch, the export and the ticket creation are over, each of
\* them reported before.
C25_ProgressMonotone ==
    /\ [](\A w \in started : \A agent \in {"jira-analyst", "workflow"} :
            /\ NonDecreasing(ProgressOf(published[w], agent))
            /\ Range(ProgressOf(published[w], agent)) \subseteq 0..100)
    /\ [][\A w \in started :
            (/\ Len(published'[w]) > Len(published[w])
             /\ Last(published'[w]).agent = "jira-analyst"
             /\ Last(published'[w]).progress = 100) =>
                /\ task[w].pc \in {"create_hsd", "return"}
                /\ {10, 30, 70} \subseteq Range(ProgressOf(published[w], "jira-analyst"))]_vars

\* C25 witness: a workflow with a handler has published all its events: the
\* analyst's four reports, the stage's completion and the workflow's.
C25_Witness ==
    \E w \in started :
        /\ ProgressOf(published[w], "jira-analyst") = <<10, 30, 70, 100, 100>>
        /\ ProgressOf(published[w], "workflow") = <<100>>

\* The step publishes an event for w.
Publishes(w) == Len(published'[w]) > Len(published[w])

\* C26: in the step that publishes an event with completed = true for a workflow
\* that is in the store, the stored current_step is completed or failed when the
\* event is handed over.
C26_CompletedEventAfterTerminal ==
    [][\A w \in started :
          (Publishes(w) /\ Last(published'[w]).completed /\ get_workflow_status(w)' # <<>>)
              => Terminal(get_workflow_status(w)'[1].current_step)]_vars

\* C26 witness: a stored workflow has published the completion of its stage, and
\* another the event of its failure.
C26_Witness ==
    \E w, v \in active_workflows :
        /\ published[w] # <<>> /\ Last(published[w]).completed
        /\ Last(published[w]).agent = "jira-analyst"
        /\ current_step(w) = "completed"
        /\ published[v] # <<>> /\ Last(published[v]).completed
        /\ current_step(v) = "failed"

\* C27: in every state of the store a query or a task can see, a workflow's state
\* has the key error, with a message, exactly when its current_step is failed.
C27_ErrorIffFailed ==
    \A w \in started :
        /\ "error" \in DOMAIN wfState[w] <=> current_step(w) = "failed"
        /\ current_step(w) = "failed" => Truthy(DictGet(wfState[w], "error"))

\* C27 witness: of two stored workflows one is failed with its error, after a
\* handler fault that followed the merge, and the other completed with none.
C27_Witness ==
    \E w, v \in active_workflows :
        /\ current_step(w) = "failed"
        /\ wfState[w].error = HandlerFault
        /\ "jira_ticket_data" \in DOMAIN wfState[w]
        /\ current_step(v) = "completed"
        /\ task[v].pc = "done"
        /\ "error" \notin DOMAIN wfState[v]

\* C28: once the request that started a workflow has broadcast the started
\* message, no connection registered all through that broadcast was delivered a
\* progress event of the workflow before the started message.
C28_StartedBeforeProgress ==
    \A w \in started :
        request[w] = "responded" =>
            \A s \in announce[w].throughout : s \notin announce[w].early

\* C29: the first step of a task whose workflow cleanup has removed ends the
\* task and changes nothing else; a task ended so has invoked no stage and
\* published nothing, and the state is as start_workflow built it.
C29_CleanedBeforeRunIsInert ==
    /\ [][\A w \in started :
            (task[w].pc = "created" /\ w \in cleaned /\ task'[w] # task[w]) =>
                /\ task'[w].pc = "exited"
                /\ wfState' = wfState
                /\ published' = published
                /\ active_workflows' = active_workflows]_vars
    /\ [](\A w \in started :
            (w \in cleaned /\ task[w].pc \notin {"created", "exited"}) =>
                task[w].invoked # <<>>)
    /\ [](\A w \in started :
            task[w].pc = "exited" =>
                /\ w \in cleaned
                /\ task[w].invoked = <<>>
                /\ published[w] = <<>>
                /\ wfState[w] = InitialState(wfState[w].jira_ticket_id))

\* C29 witness: a workflow started with a handler was cleaned up before its task
\* ran; the task has run and ended, while another workflow went its way.
C29_Witness ==
    \E w, v \in started :
        /\ task[w].pc = "exited"
        /\ w \in cleaned
        /\ current_step(w) = "jira_analyst"
        /\ task[v].pc = "done"

\* The event is the terminal one of the workflow: label workflow, completed.
IsTerminalEvent(e) == e.agent = "workflow" /\ e.completed

TerminalEvents(q) == {i \in 1..Len(q) : IsTerminalEvent(q[i])}

\* C30: with the handler of the server, which never faults, a workflow never has
\* more than one terminal event published; a task that has ended, on the success
\* path or on the failure path, has published exactly one, as its last event; and
\* nothing is published after it.
C30_TerminalEventOnceAndLast ==
    /\ [](\A w \in started :
            /\ Cardinality(TerminalEvents(published[w])) <= 1
            /\ task[w].pc = "done" =>
                  /\ TerminalEvents(published[w]) = {Len(published[w])}
                  /\ Terminal(current_step(w)))
    /\ [][\A w \in started :
            TerminalEvents(published[w]) # {} => published'[w] = published[w]]_vars

\* C30 witness: a workflow started through the server has ended on the success
\* path; the last of its six events is the terminal one.
C30_Witness ==
    \E w \in started :
        /\ task[w].pc = "done"
        /\ task[w].cb = "broadcast"
        /\ current_step(w) = "completed"
        /\ Len(published[w]) = 6
        /\ IsTerminalEvent(Last(published[w]))

====
